---- MODULE Spec2Model ----
(***************************************************************************)
(* Model of common/utilities/managedEquipmentDefault.go: the equipment     *)
(* actor (SendRequest / AcceptRequest over the unbuffered RequestChannel), *)
(* the property resolver getAllPropertiesForEquipment and                  *)
(* UpdatePropertyValue.                                                    *)
(*                                                                         *)
(* Strings that the code concatenates are sequences of tokens, so that     *)
(* "+=" is \o.  time.Now() stamps are left out of the messages, as are the *)
(* log calls and the handlerContext map that only the handlers use.        *)
(*                                                                         *)
(* Model of common/utilities/eventDefEvaluatorDefault.go: EvaluateEventDef *)
(* against the actor's property map.                                       *)
(*                                                                         *)
(* Spec          callers and the actor's loop on RequestChannel            *)
(* SpecSolo      the same with one SendRequest in flight at a time         *)
(* SpecResolver  getAllPropertiesForEquipment over every small data store  *)
(* SpecProps     UpdatePropertyValue on every small constructed map        *)
(* SpecEval      EvaluateEventDef over small definitions and contexts      *)
(***************************************************************************)
EXTENDS Integers, Sequences, FiniteSets, TLC

(***************************************************************************)
(* Bounds                                                                  *)
(***************************************************************************)
NumCallers == 2
MaxRequests == 2
MaxHandlers == 2
MaxChain == 2
MaxUpdates == 2
MaxFields == 2
MaxEvents == 2

(***************************************************************************)
(* Values                                                                  *)
(***************************************************************************)
Nil == "nil"
NoMsg == [ServiceType |-> "none"]
Actor == 0
Callers == 1..NumCallers
Procs == {Actor} \cup Callers

SVCRQST_TAGDATA == "TAGDATA"
SVCRQST_TAGDATA_ACK == "TAGDATA_ACK"
SVCRQST_SHUTDOWN == "SHUTDOWN"
SVCRQST_SHUTDOWN_ACK == "SHUTDOWN_ACK"
\* a ServiceType value outside the four declared ones
SVCRQST_OTHER == "OTHER"
ServiceTypes ==
    {SVCRQST_TAGDATA, SVCRQST_TAGDATA_ACK, SVCRQST_SHUTDOWN,
     SVCRQST_SHUTDOWN_ACK, SVCRQST_OTHER}

EquipInstId == "eq1"
EmptyTagInfo == [OwningAssetId |-> "", ItemName |-> ""]
TagInfos == {[OwningAssetId |-> "", ItemName |-> "tag1"]}

\* the handlers that can be registered, in registration order
HandlerName(i) == "h" \o ToString(i)
HandlerErrs == {Nil, "handlerError"}

CallerLabel(c) == "caller" \o ToString(c)

\* the requests caller c may pass to SendRequest; Message carries the
\* caller's label so that two callers' requests differ
Requests(c) ==
    {[ServiceType |-> st, Message |-> <<CallerLabel(c)>>, TagInfo |-> ti] :
        st \in ServiceTypes, ti \in TagInfos}

\* property names, and the (DataType, raw Value) pairs a stored property has
Names == {"P", "Q"}
RawValues == {"12", "7", "abc"}
PropForms ==
    {[DataType |-> "INT", Value |-> "12"],
     [DataType |-> "INT", Value |-> "abc"],
     [DataType |-> "STRING", Value |-> "abc"]}

\* scope 0 is the equipment instance, scope k > 0 the k-th class of its chain
ClassId(k) == IF k = 0 THEN "" ELSE "class" \o ToString(k)
PropId(k, n) == n \o "@" \o ToString(k)

\* domain.Property declared in scope k
Property(k, n, form) ==
    [Id |-> PropId(k, n), Name |-> n, DataType |-> form.DataType,
     Value |-> form.Value, EquipmentClass |-> ClassId(k)]

\* the property list of scope k (names unique within a scope), when decl
\* gives for every scope and name the form declared there, or Undeclared
Undeclared == [DataType |-> "", Value |-> ""]
Declared(decl, k) ==
    {Property(k, n, decl[k, n]) : n \in {m \in Names : decl[k, m] # Undeclared}}

NotFound == "not found"
\* what the store holds when the equipment id is unknown
NoEquipment == [found |-> FALSE, Properties |-> {}, EquipmentClass |-> ""]

VARIABLES
    tagChangeHandlers,  \* the handler list passed to AcceptRequest
    pc,                 \* position of the actor's goroutine and of each caller
    request,            \* SendRequest's argument, per caller
    ack,                \* SendRequest's result, per caller
    issued,             \* number of SendRequest calls made so far
    sendq,              \* goroutines parked sending on RequestChannel
    recvq,              \* goroutines parked receiving on RequestChannel
    rqst,               \* AcceptRequest: the request received
    ackMsg,             \* AcceptRequest: accumulated ack text
    calls,              \* HandleTagChange invocations of this AcceptRequest call
    errs,               \* their results, in order
    reply,              \* AcceptRequest: the ack it sends
    ret,                \* last value returned by AcceptRequest
    eqInst,             \* data store: the equipment (found or not)
    classes,            \* data store: the class chain, nearest class first
    failing,            \* data store: class ids whose lookup fails
    pcR,                \* position in getAllPropertiesForEquipment
    fullPropertyList,   \* resolver: merged properties by name
    currEqcId,          \* resolver: class to look up next
    err,                \* resolver: error of the last lookup
    lookups,            \* data store: class ids looked up, in order
    props,              \* actor: descriptors by name
    now,                \* clock read by time.Now()
    updCall,            \* last UpdatePropertyValue call: its arguments
    updErr,             \* last UpdatePropertyValue call: conversion error
    updResult,          \* last UpdatePropertyValue call: returned error
    events,             \* actor: the event log
    added,              \* number of AddEvent calls made so far
    ConfigLevel,        \* actor: its configuration level
    evtStore,           \* data store: the event definition (found or not)
    evalContext,        \* EvaluateEventDef: the caller's extra context
    pcE,                \* position in EvaluateEventDef
    vals,               \* EvaluateEventDef: the variable environment
    result,             \* EvaluateEventDef: the trigger's value
    fieldMap,           \* EvaluateEventDef: the payload being built
    fieldErr,           \* EvaluateEventDef: error of the last field evaluated
    fieldIdx,           \* EvaluateEventDef: payload fields visited so far
    evaluated,          \* expressions handed to gval.Evaluate, in order
    evRet               \* EvaluateEventDef: what it returned

actorVars ==
    <<tagChangeHandlers, pc, request, ack, issued, sendq, recvq, rqst,
      ackMsg, calls, errs, reply, ret>>

resolverVars ==
    <<eqInst, classes, failing, pcR, fullPropertyList, currEqcId, err,
      lookups>>

propVars ==
    <<props, now, updCall, updErr, updResult, events, added, ConfigLevel>>

evalVars ==
    <<evtStore, evalContext, pcE, vals, result, fieldMap, fieldErr, fieldIdx,
      evaluated, evRet>>

vars == <<actorVars, resolverVars, propVars, evalVars>>

(***************************************************************************)
(* TagChangeHandlerPort (external capability)                              *)
(***************************************************************************)
GetAckMessage(h, herr) == <<h, IF herr = Nil THEN "ok" ELSE herr>>

(***************************************************************************)
(* RequestChannel: an unbuffered Go channel.  A send hands its value to    *)
(* the longest-parked receiver or parks; a receive takes the value of the  *)
(* longest-parked sender or parks.                                         *)
(***************************************************************************)
Outgoing(p) == IF p = Actor THEN reply ELSE request[p]
AfterSend(p) == IF p = Actor THEN "ackSent" ELSE "sent"
AfterRecv(p) == IF p = Actor THEN "gotRqst" ELSE "done"

Deliver(r, m) ==
    /\ ack' = IF r \in Callers THEN [ack EXCEPT ![r] = m] ELSE ack
    /\ rqst' = IF r = Actor THEN m ELSE rqst

ChanSend(p, m) ==
    IF recvq # <<>>
    THEN LET r == Head(recvq)
         IN /\ recvq' = Tail(recvq)
            /\ sendq' = sendq
            /\ pc' = [pc EXCEPT ![p] = AfterSend(p), ![r] = AfterRecv(r)]
            /\ Deliver(r, m)
    ELSE /\ sendq' = Append(sendq, p)
         /\ recvq' = recvq
         /\ pc' = [pc EXCEPT ![p] = "sendBlocked"]
         /\ UNCHANGED <<ack, rqst>>

ChanRecv(p) ==
    IF sendq # <<>>
    THEN LET s == Head(sendq)
         IN /\ sendq' = Tail(sendq)
            /\ recvq' = recvq
            /\ pc' = [pc EXCEPT ![p] = AfterRecv(p), ![s] = AfterSend(s)]
            /\ Deliver(p, Outgoing(s))
    ELSE /\ recvq' = Append(recvq, p)
         /\ sendq' = sendq
         /\ pc' = [pc EXCEPT ![p] = "recvBlocked"]
         /\ UNCHANGED <<ack, rqst>>

(***************************************************************************)
(* SendRequest                                                             *)
(***************************************************************************)
\* s.RequestChannel <- request
SendRequest_Send(c, r) ==
    /\ pc[c] \in {"idle", "done"}
    /\ issued < MaxRequests
    /\ issued' = issued + 1
    /\ request' = [request EXCEPT ![c] = r]
    /\ ChanSend(c, r)
    /\ UNCHANGED <<tagChangeHandlers, ackMsg, calls, errs, reply, ret>>
    /\ UNCHANGED <<resolverVars, propVars, evalVars>>

\* ack := <-s.RequestChannel; return ack
SendRequest_Receive(c) ==
    /\ pc[c] = "sent"
    /\ ChanRecv(c)
    /\ UNCHANGED <<tagChangeHandlers, request, issued, ackMsg, calls, errs,
                   reply, ret>>
    /\ UNCHANGED <<resolverVars, propVars, evalVars>>

(***************************************************************************)
(* AcceptRequest                                                           *)
(***************************************************************************)
\* rqst := <-s.RequestChannel
AcceptRequest_Receive ==
    /\ pc[Actor] = "start"
    /\ ChanRecv(Actor)
    /\ UNCHANGED <<tagChangeHandlers, request, issued, ackMsg, calls, errs,
                   reply, ret>>
    /\ UNCHANGED <<resolverVars, propVars, evalVars>>

\* case SVCRQST_TAGDATA: the request's owning asset becomes this equipment
AcceptRequest_TagData ==
    /\ pc[Actor] = "gotRqst"
    /\ rqst.ServiceType = SVCRQST_TAGDATA
    /\ rqst' = [rqst EXCEPT !.TagInfo.OwningAssetId = EquipInstId]
    /\ pc' = [pc EXCEPT ![Actor] = "handlers"]
    /\ UNCHANGED <<tagChangeHandlers, request, ack, issued, sendq, recvq,
                   ackMsg, calls, errs, reply, ret>>
    /\ UNCHANGED <<resolverVars, propVars, evalVars>>

Accumulate_Overwrite(msg, m) == m

\* ackMsg += handler.GetAckMessage(err)
Accumulate(msg, m) == msg \o m

LoopDone_BreakOnError(done, results, handlers) ==
    \/ Len(done) = Len(handlers)
    \/ (results # <<>> /\ results[Len(results)] # Nil)

\* for _, handler := range *tagChangeHandlers
LoopDone(done, results, handlers) == Len(done) = Len(handlers)

\* one iteration of the handler loop
AcceptRequest_Handler ==
    /\ pc[Actor] = "handlers"
    /\ ~LoopDone(calls, errs, tagChangeHandlers)
    /\ LET handler == tagChangeHandlers[Len(calls) + 1]
       IN \E herr \in HandlerErrs :
            /\ calls' = Append(calls, [handler |-> handler,
                                       tagInfo |-> rqst.TagInfo])
            /\ errs' = Append(errs, herr)
            /\ ackMsg' = Accumulate(ackMsg, GetAckMessage(handler, herr))
    /\ UNCHANGED <<tagChangeHandlers, pc, request, ack, issued, sendq, recvq,
                   rqst, reply, ret>>
    /\ UNCHANGED <<resolverVars, propVars, evalVars>>

TagDataAck(msg) ==
    [ServiceType |-> SVCRQST_TAGDATA_ACK, Message |-> msg,
     TagInfo |-> EmptyTagInfo]

\* after the loop: s.RequestChannel <- {TAGDATA_ACK, ackMsg}
AcceptRequest_TagDataAck ==
    /\ pc[Actor] = "handlers"
    /\ LoopDone(calls, errs, tagChangeHandlers)
    /\ reply' = TagDataAck(ackMsg)
    /\ ChanSend(Actor, reply')
    /\ UNCHANGED <<tagChangeHandlers, request, issued, ackMsg, calls, errs,
                   ret>>
    /\ UNCHANGED <<resolverVars, propVars, evalVars>>

ShutdownAck ==
    [ServiceType |-> SVCRQST_SHUTDOWN_ACK,
     Message |-> <<"Shutdown request acknowledged">>,
     TagInfo |-> EmptyTagInfo]

AcceptRequest_Shutdown_NoAck ==
    /\ pc[Actor] = "gotRqst"
    /\ rqst.ServiceType = SVCRQST_SHUTDOWN
    /\ reply' = ShutdownAck
    /\ pc' = [pc EXCEPT ![Actor] = "ackSent"]
    /\ UNCHANGED <<tagChangeHandlers, request, ack, issued, sendq, recvq,
                   rqst, ackMsg, calls, errs, ret>>
    /\ UNCHANGED <<resolverVars, propVars, evalVars>>

\* case SVCRQST_SHUTDOWN: s.RequestChannel <- {SHUTDOWN_ACK}
AcceptRequest_Shutdown ==
    /\ pc[Actor] = "gotRqst"
    /\ rqst.ServiceType = SVCRQST_SHUTDOWN
    /\ reply' = ShutdownAck
    /\ ChanSend(Actor, reply')
    /\ UNCHANGED <<tagChangeHandlers, request, issued, ackMsg, calls, errs,
                   ret>>
    /\ UNCHANGED <<resolverVars, propVars, evalVars>>

\* the switch has no case for any other ServiceType
AcceptRequest_Other ==
    /\ pc[Actor] = "gotRqst"
    /\ rqst.ServiceType \notin {SVCRQST_TAGDATA, SVCRQST_SHUTDOWN}
    /\ pc' = [pc EXCEPT ![Actor] = "afterSwitch"]
    /\ UNCHANGED <<tagChangeHandlers, request, ack, issued, sendq, recvq,
                   rqst, ackMsg, calls, errs, reply, ret>>
    /\ UNCHANGED <<resolverVars, propVars, evalVars>>

ReturnValue_AlwaysTrue(st) == TRUE

\* return false in the SHUTDOWN case, return true after the switch
ReturnValue(st) == st # SVCRQST_SHUTDOWN

AcceptRequest_Return ==
    /\ pc[Actor] \in {"ackSent", "afterSwitch"}
    /\ ret' = ReturnValue(rqst.ServiceType)
    /\ pc' = [pc EXCEPT ![Actor] = "returned"]
    /\ UNCHANGED <<tagChangeHandlers, request, ack, issued, sendq, recvq,
                   rqst, ackMsg, calls, errs, reply>>
    /\ UNCHANGED <<resolverVars, propVars, evalVars>>

\* the owning scheduler: calls AcceptRequest again (with fresh locals) until
\* it returns false
RunLoop ==
    /\ pc[Actor] = "returned"
    /\ IF ret
       THEN /\ pc' = [pc EXCEPT ![Actor] = "start"]
            /\ rqst' = NoMsg
            /\ ackMsg' = <<>>
            /\ calls' = <<>>
            /\ errs' = <<>>
            /\ reply' = NoMsg
       ELSE /\ pc' = [pc EXCEPT ![Actor] = "stopped"]
            /\ UNCHANGED <<rqst, ackMsg, calls, errs, reply>>
    /\ UNCHANGED <<tagChangeHandlers, request, ack, issued, sendq, recvq, ret>>
    /\ UNCHANGED <<resolverVars, propVars, evalVars>>

ActorInit ==
    /\ \E n \in 0..MaxHandlers :
         tagChangeHandlers = [i \in 1..n |-> HandlerName(i)]
    /\ pc = [p \in Procs |-> IF p = Actor THEN "start" ELSE "idle"]
    /\ request = [c \in Callers |-> NoMsg]
    /\ ack = [c \in Callers |-> NoMsg]
    /\ issued = 0
    /\ sendq = <<>>
    /\ recvq = <<>>
    /\ rqst = NoMsg
    /\ ackMsg = <<>>
    /\ calls = <<>>
    /\ errs = <<>>
    /\ reply = NoMsg
    /\ ret = TRUE

ActorStep ==
    \/ AcceptRequest_Receive
    \/ AcceptRequest_TagData
    \/ AcceptRequest_Handler
    \/ AcceptRequest_TagDataAck
    \/ AcceptRequest_Shutdown
    \/ AcceptRequest_Other
    \/ AcceptRequest_Return
    \/ RunLoop

(***************************************************************************)
(* Data store queries (external): lookups by id                            *)
(***************************************************************************)
EmptyMap == [n \in {} |-> NotFound]

\* queries.GetEquipmentClassPropertiesAndParentById
ClassLookup(id) ==
    IF id \in failing \/ ~(\E k \in 1..Len(classes) : ClassId(k) = id)
    THEN [err |-> NotFound, Properties |-> {}, Parent |-> ""]
    ELSE LET k == CHOOSE j \in 1..Len(classes) : ClassId(j) = id
         IN [err |-> Nil, Properties |-> classes[k].Properties,
             Parent |-> classes[k].Parent]

(***************************************************************************)
(* getAllPropertiesForEquipment                                            *)
(***************************************************************************)
MergeProps_KeepExisting(full, plist) ==
    [n \in DOMAIN full \cup {p.Name : p \in plist} |->
        IF n \in DOMAIN full THEN full[n]
        ELSE CHOOSE p \in plist : p.Name = n]

\* for _, p := range Properties { fullPropertyList[p.Name] = p }
MergeProps(full, plist) ==
    [n \in DOMAIN full \cup {p.Name : p \in plist} |->
        IF \E p \in plist : p.Name = n
        THEN CHOOSE p \in plist : p.Name = n
        ELSE full[n]]

\* eqInst, err = queries.GetEquipmentById(txn, eqId), then its own properties
Resolve_GetEquipment ==
    /\ pcR = "start"
    /\ IF ~eqInst.found
       THEN /\ err' = NotFound
            /\ pcR' = "done"
            /\ UNCHANGED <<fullPropertyList, currEqcId>>
       ELSE /\ err' = Nil
            /\ fullPropertyList' = MergeProps(EmptyMap, eqInst.Properties)
            /\ currEqcId' = eqInst.EquipmentClass
            /\ pcR' = "walk"
    /\ UNCHANGED <<eqInst, classes, failing, lookups>>
    /\ UNCHANGED <<actorVars, propVars, evalVars>>

Resolve_ClassStep_IgnoreFailure ==
    /\ pcR = "walk"
    /\ currEqcId # ""
    /\ lookups' = Append(lookups, currEqcId)
    /\ LET eqcInst == ClassLookup(currEqcId)
           k == CHOOSE j \in 1..Len(classes) : ClassId(j) = currEqcId
       IN IF eqcInst.err = Nil
          THEN /\ err' = Nil
               /\ fullPropertyList' =
                      MergeProps(fullPropertyList, eqcInst.Properties)
               /\ currEqcId' = eqcInst.Parent
          ELSE /\ err' = eqcInst.err
               /\ currEqcId' = classes[k].Parent
               /\ UNCHANGED fullPropertyList
    /\ UNCHANGED <<eqInst, classes, failing, pcR>>
    /\ UNCHANGED <<actorVars, propVars, evalVars>>

\* one iteration of: for currEqcId != "" { ... }
Resolve_ClassStep ==
    /\ pcR = "walk"
    /\ currEqcId # ""
    /\ lookups' = Append(lookups, currEqcId)
    /\ LET eqcInst == ClassLookup(currEqcId)
       IN IF eqcInst.err = Nil
          THEN /\ err' = Nil
               /\ fullPropertyList' =
                      MergeProps(fullPropertyList, eqcInst.Properties)
               /\ currEqcId' = eqcInst.Parent
          ELSE /\ err' = eqcInst.err
               /\ currEqcId' = ""
               /\ UNCHANGED fullPropertyList
    /\ UNCHANGED <<eqInst, classes, failing, pcR>>
    /\ UNCHANGED <<actorVars, propVars, evalVars>>

\* return fullPropertyList, err
Resolve_Return ==
    /\ pcR = "walk"
    /\ currEqcId = ""
    /\ pcR' = "done"
    /\ UNCHANGED <<eqInst, classes, failing, fullPropertyList, currEqcId,
                   err, lookups>>
    /\ UNCHANGED <<actorVars, propVars, evalVars>>

\* the data store holds an equipment with an acyclic class chain of at most
\* MaxChain classes; at most one class lookup fails
ResolverInit ==
    /\ \E len \in 0..MaxChain :
         \/ /\ len = 0
            /\ eqInst = NoEquipment
            /\ classes = <<>>
            /\ failing = {}
         \/ \E decl \in [(0..len) \X Names -> PropForms \cup {Undeclared}] :
              /\ eqInst = [found |-> TRUE, Properties |-> Declared(decl, 0),
                           EquipmentClass |-> IF len = 0 THEN ""
                                              ELSE ClassId(1)]
              /\ classes =
                   [k \in 1..len |->
                      [Properties |-> Declared(decl, k),
                       Parent |-> IF k = len THEN "" ELSE ClassId(k + 1)]]
              /\ \E bad \in 0..len :
                   failing = IF bad = 0 THEN {} ELSE {ClassId(bad)}
    /\ pcR = "start"
    /\ fullPropertyList = EmptyMap
    /\ currEqcId = ""
    /\ err = Nil
    /\ lookups = <<>>

ResolverIdle ==
    /\ eqInst = NoEquipment
    /\ classes = <<>>
    /\ failing = {}
    /\ pcR = "idle"
    /\ fullPropertyList = EmptyMap
    /\ currEqcId = ""
    /\ err = Nil
    /\ lookups = <<>>

ActorIdle ==
    /\ tagChangeHandlers = <<>>
    /\ pc = [p \in Procs |-> "idle"]
    /\ request = [c \in Callers |-> NoMsg]
    /\ ack = [c \in Callers |-> NoMsg]
    /\ issued = 0
    /\ sendq = <<>>
    /\ recvq = <<>>
    /\ rqst = NoMsg
    /\ ackMsg = <<>>
    /\ calls = <<>>
    /\ errs = <<>>
    /\ reply = NoMsg
    /\ ret = TRUE

(***************************************************************************)
(* domain.ConvertPropertyValueStringToTypedValue: a typed value is the     *)
(* pair <<kind, digits or text>>; a failed conversion yields no value      *)
(***************************************************************************)
NilValue == <<>>
Numerals == {"12", "7"}

ConvertPropertyValueStringToTypedValue(dataType, value) ==
    IF dataType = "STRING" THEN [val |-> <<"string", value>>, err |-> Nil]
    ELSE IF dataType = "INT" /\ value \in Numerals
         THEN [val |-> <<"int", value>>, err |-> Nil]
    ELSE [val |-> NilValue, err |-> "conversion failed"]

ZeroTime == 0

\* the zero value of domain.EquipmentPropertyDescriptor
ZeroDescriptor ==
    [Name |-> "", DataType |-> "", Value |-> NilValue, ClassPropertyId |-> "",
     EquipmentClassId |-> "", LastUpdate |-> ZeroTime]

\* NewManagedEquipmentDefault: the descriptor built from a resolved property
Descriptor(name, prop) ==
    [Name |-> name,
     DataType |-> prop.DataType,
     Value |-> ConvertPropertyValueStringToTypedValue(prop.DataType,
                                                      prop.Value).val,
     ClassPropertyId |-> IF prop.EquipmentClass # "" THEN prop.Id ELSE "",
     EquipmentClassId |-> prop.EquipmentClass,
     LastUpdate |-> ZeroTime]

(***************************************************************************)
(* UpdatePropertyValue                                                     *)
(***************************************************************************)
UpdateResult_ConversionError(convErr) == convErr

\* return nil
UpdateResult(convErr) == Nil

UpdatePropertyValue_StoreOnFailure(propName, propValue) ==
    /\ now < MaxUpdates
    /\ now' = now + 1
    /\ LET pd == IF propName \in DOMAIN props THEN props[propName]
                 ELSE ZeroDescriptor
           conv == ConvertPropertyValueStringToTypedValue(pd.DataType,
                                                          propValue)
       IN /\ props' =
               [n \in DOMAIN props \cup {propName} |->
                  IF n = propName
                  THEN [pd EXCEPT !.Value = IF conv.err = Nil THEN conv.val
                                            ELSE pd.Value,
                                  !.LastUpdate = now']
                  ELSE props[n]]
          /\ updErr' = conv.err
          /\ updResult' = UpdateResult(conv.err)
    /\ updCall' = [propName |-> propName, propValue |-> propValue]
    /\ UNCHANGED <<events, added, ConfigLevel>>
    /\ UNCHANGED <<actorVars, resolverVars, evalVars>>

\* pd := s.props[propName]; convert; on success store Value and LastUpdate
UpdatePropertyValue(propName, propValue) ==
    /\ now < MaxUpdates
    /\ now' = now + 1
    /\ LET pd == IF propName \in DOMAIN props THEN props[propName]
                 ELSE ZeroDescriptor
           conv == ConvertPropertyValueStringToTypedValue(pd.DataType,
                                                          propValue)
       IN /\ IF conv.err = Nil
             THEN props' =
                    [n \in DOMAIN props \cup {propName} |->
                       IF n = propName
                       THEN [pd EXCEPT !.Value = conv.val,
                                       !.LastUpdate = now']
                       ELSE props[n]]
             ELSE props' = props
          /\ updErr' = conv.err
          /\ updResult' = UpdateResult(conv.err)
    /\ updCall' = [propName |-> propName, propValue |-> propValue]
    /\ UNCHANGED <<events, added, ConfigLevel>>
    /\ UNCHANGED <<actorVars, resolverVars, evalVars>>

(***************************************************************************)
(* AddEvent and SetConfigLevel                                             *)
(***************************************************************************)
EventNames == {"alarm", "run"}
EventDescs == {"raised", "cleared"}
ConfigLevels == {0, 1}

AddEvent_Dedup(eventName, eventDesc) ==
    /\ added < MaxEvents
    /\ events' = IF \E i \in 1..Len(events) : events[i] = eventDesc
                 THEN events ELSE Append(events, eventDesc)
    /\ added' = added + 1
    /\ UNCHANGED <<props, now, updCall, updErr, updResult, ConfigLevel>>
    /\ UNCHANGED <<actorVars, resolverVars, evalVars>>

\* s.events = append(s.events, eventDesc); eventName is not used
AddEvent(eventName, eventDesc) ==
    /\ added < MaxEvents
    /\ events' = Append(events, eventDesc)
    /\ added' = added + 1
    /\ UNCHANGED <<props, now, updCall, updErr, updResult, ConfigLevel>>
    /\ UNCHANGED <<actorVars, resolverVars, evalVars>>

\* s.ConfigLevel = level
SetConfigLevel(level) ==
    /\ ConfigLevel' = level
    /\ UNCHANGED <<props, now, updCall, updErr, updResult, events, added>>
    /\ UNCHANGED <<actorVars, resolverVars, evalVars>>

NoCall == [propName |-> "", propValue |-> ""]

(***************************************************************************)
(* NewManagedEquipmentDefault: the property map it leaves in the actor     *)
(***************************************************************************)
Seed_IgnoreError(e, proplist) ==
    [n \in DOMAIN proplist |-> Descriptor(n, proplist[n])]

\* props starts empty; if err == nil { ... s.props = props }
Seed(e, proplist) ==
    IF e = Nil
    THEN [n \in DOMAIN proplist |-> Descriptor(n, proplist[n])]
    ELSE EmptyMap

\* the constructor after getAllPropertiesForEquipment has returned
NewManagedEquipmentDefault ==
    /\ pcR = "done"
    /\ props' = Seed(err, fullPropertyList)
    /\ events' = <<>>
    /\ ConfigLevel' = 0
    /\ pcR' = "constructed"
    /\ UNCHANGED <<eqInst, classes, failing, fullPropertyList, currEqcId,
                   err, lookups>>
    /\ UNCHANGED <<now, updCall, updErr, updResult, added>>
    /\ UNCHANGED <<actorVars, evalVars>>

\* the property map of a constructed actor: one descriptor per resolved name
PropsInit ==
    /\ \E ns \in SUBSET Names :
         \E sc \in [ns -> 0..MaxChain] : \E f \in [ns -> PropForms] :
            props = [n \in ns |-> Descriptor(n, Property(sc[n], n, f[n]))]
    /\ now = ZeroTime
    /\ updCall = NoCall
    /\ updErr = Nil
    /\ updResult = Nil
    /\ events = <<>>
    /\ added = 0
    /\ ConfigLevel = 0

PropsIdle ==
    /\ props = EmptyMap
    /\ now = ZeroTime
    /\ updCall = NoCall
    /\ updErr = Nil
    /\ updResult = Nil
    /\ events = <<>>
    /\ added = 0
    /\ ConfigLevel = 0

(***************************************************************************)
(* gval.Evaluate (external): an expression is a constant, a variable, or   *)
(* the comparison of a variable with a literal.  A value is a pair         *)
(* <<kind, text>>, nil is <<>>; a variable the environment lacks is an     *)
(* error.                                                                  *)
(***************************************************************************)
BoolValue(b) == <<"bool", IF b THEN "true" ELSE "false">>
IntValue(d) == <<"int", d>>
StringValue(t) == <<"string", t>>

Const(v) == [op |-> "const", name |-> "", lit |-> v]
Var(n) == [op |-> "var", name |-> n, lit |-> NilValue]
Eq(n, v) == [op |-> "eq", name |-> n, lit |-> v]

Evaluate(expr, env) ==
    IF expr.op = "const" THEN [val |-> expr.lit, err |-> Nil]
    ELSE IF expr.name \notin DOMAIN env
         THEN [val |-> NilValue, err |-> "unknown parameter " \o expr.name]
    ELSE IF expr.op = "var" THEN [val |-> env[expr.name], err |-> Nil]
    ELSE [val |-> BoolValue(env[expr.name] = expr.lit), err |-> Nil]

\* case bool of the type switch
IsBool(v) == v # NilValue /\ v[1] = "bool"

\* fmt.Sprintf("%t", result)
FormatBool(v) == v[2]

ParseBool_AlwaysTrue(str) == [val |-> TRUE, err |-> Nil]

\* strconv.ParseBool
ParseBool(str) ==
    IF str = "true" THEN [val |-> TRUE, err |-> Nil]
    ELSE IF str = "false" THEN [val |-> FALSE, err |-> Nil]
    ELSE [val |-> FALSE, err |-> "invalid syntax"]

(***************************************************************************)
(* The inputs of EvaluateEventDef                                          *)
(***************************************************************************)
\* context keys: one that is also a property name, one that is not
CtxKeys == {"P", "X"}
CtxValues == {IntValue("7")}
NilContext == [isNil |-> TRUE, m |-> EmptyMap]
Context(m) == [isNil |-> FALSE, m |-> m]
Contexts ==
    {NilContext} \cup
    UNION {{Context(m) : m \in [ks -> CtxValues]} : ks \in SUBSET CtxKeys}

TriggerExprs ==
    {Const(BoolValue(TRUE)), Const(BoolValue(FALSE)), Var("P"), Var("X"),
     Eq("P", IntValue("12"))}
FieldExprs == {Var("P"), Var("X"), Const(StringValue("abc"))}
FieldNames == {"f", "P"}
PayloadFieldSet == [Name : FieldNames, Expression : FieldExprs]

RECURSIVE ListsUpTo(_, _)
ListsUpTo(S, n) ==
    IF n = 0 THEN {<<>>}
    ELSE LET shorter == ListsUpTo(S, n - 1)
         IN shorter \cup {Append(l, x) : l \in shorter, x \in S}

PayloadPropertyLists == {<<>>, <<"P">>, <<"Q">>, <<"P", "Q">>}

EventDefinitions ==
    [Id : {"ev1"}, TriggerExpression : TriggerExprs,
     PayloadFields : ListsUpTo(PayloadFieldSet, MaxFields),
     PayloadProperties : PayloadPropertyLists]

NoDefinition ==
    [Id |-> "", TriggerExpression |-> Const(NilValue), PayloadFields |-> <<>>,
     PayloadProperties |-> <<>>]

(***************************************************************************)
(* managedEquipmentDefault read accessors                                  *)
(***************************************************************************)
\* GetPropertyValue: s.props[propName].Value
GetPropertyValue(propName) ==
    IF propName \in DOMAIN props THEN props[propName].Value
    ELSE ZeroDescriptor.Value

\* GetPropertyMap: s.props
GetPropertyMap == props

(***************************************************************************)
(* EvaluateEventDef                                                        *)
(***************************************************************************)
NilPayload == [isNil |-> TRUE, m |-> EmptyMap]
Payload(m) == [isNil |-> FALSE, m |-> m]
NilDef == [isNil |-> TRUE, def |-> NoDefinition]
DefRef(d) == [isNil |-> FALSE, def |-> d]
NoReturn == [fired |-> FALSE, def |-> NilDef, payload |-> NilPayload,
             err |-> "none"]

Overlay_PropertiesWin(base, ctx) ==
    [k \in DOMAIN base \cup (IF ctx.isNil THEN {} ELSE DOMAIN ctx.m) |->
        IF k \in DOMAIN base THEN base[k] ELSE ctx.m[k]]

\* if evalContext != nil { for key, val := range *evalContext { vals[key] = val } }
Overlay(base, ctx) ==
    IF ctx.isNil THEN base
    ELSE [k \in DOMAIN base \cup DOMAIN ctx.m |->
            IF k \in DOMAIN ctx.m THEN ctx.m[k] ELSE base[k]]

\* vals: every property's Value, then the context on top
Environment ==
    Overlay([k \in DOMAIN GetPropertyMap |-> GetPropertyMap[k].Value],
            evalContext)

Eval_Lookup_SharedContext ==
    /\ pcE = "start"
    /\ IF evtStore.found
       THEN LET shared ==
                    [k \in DOMAIN props \cup DOMAIN evalContext.m |->
                        IF k \in DOMAIN props THEN props[k].Value
                        ELSE evalContext.m[k]]
            IN /\ vals' = IF evalContext.isNil THEN Environment ELSE shared
               /\ evalContext' = IF evalContext.isNil THEN evalContext
                                 ELSE Context(shared)
               /\ pcE' = "trigger"
               /\ evRet' = evRet
       ELSE /\ evRet' = [fired |-> FALSE, def |-> NilDef,
                         payload |-> NilPayload, err |-> NotFound]
            /\ pcE' = "done"
            /\ UNCHANGED <<vals, evalContext>>
    /\ UNCHANGED <<evtStore, result, fieldMap, fieldErr, fieldIdx, evaluated>>
    /\ UNCHANGED <<actorVars, resolverVars, propVars>>

Eval_Lookup_SwallowError ==
    /\ pcE = "start"
    /\ IF evtStore.found
       THEN /\ vals' = Environment
            /\ pcE' = "trigger"
            /\ evRet' = evRet
       ELSE /\ evRet' = [fired |-> FALSE, def |-> NilDef,
                         payload |-> NilPayload, err |-> Nil]
            /\ pcE' = "done"
            /\ vals' = vals
    /\ UNCHANGED <<evtStore, evalContext, result, fieldMap, fieldErr, fieldIdx,
                   evaluated>>
    /\ UNCHANGED <<actorVars, resolverVars, propVars>>

\* evtDef, err = queries.GetEventDefinitionById; build vals when found
Eval_Lookup ==
    /\ pcE = "start"
    /\ IF evtStore.found
       THEN /\ vals' = Environment
            /\ pcE' = "trigger"
            /\ evRet' = evRet
       ELSE /\ evRet' = [fired |-> FALSE, def |-> NilDef,
                         payload |-> NilPayload, err |-> NotFound]
            /\ pcE' = "done"
            /\ vals' = vals
    /\ UNCHANGED <<evtStore, evalContext, result, fieldMap, fieldErr, fieldIdx,
                   evaluated>>
    /\ UNCHANGED <<actorVars, resolverVars, propVars>>

\* result, err = gval.Evaluate(evtDef.TriggerExpression, vals) and the switch
Eval_Trigger ==
    /\ pcE = "trigger"
    /\ LET ev == Evaluate(evtStore.def.TriggerExpression, vals)
       IN /\ evaluated' = Append(evaluated, evtStore.def.TriggerExpression)
          /\ result' = ev.val
          /\ IF ev.err # Nil
             THEN /\ evRet' = [fired |-> FALSE, def |-> NilDef,
                               payload |-> NilPayload, err |-> ev.err]
                  /\ pcE' = "done"
             ELSE IF ~IsBool(ev.val)
             THEN /\ evRet' = [fired |-> FALSE, def |-> NilDef,
                               payload |-> NilPayload, err |-> Nil]
                  /\ pcE' = "done"
             ELSE LET parsed == ParseBool(FormatBool(ev.val))
                  IN IF parsed.err # Nil
                     THEN /\ evRet' = [fired |-> FALSE, def |-> NilDef,
                                       payload |-> NilPayload,
                                       err |-> parsed.err]
                          /\ pcE' = "done"
                     ELSE IF parsed.val
                     THEN /\ pcE' = "fields"
                          /\ evRet' = evRet
                     ELSE /\ evRet' = [fired |-> FALSE,
                                       def |-> DefRef(evtStore.def),
                                       payload |-> NilPayload, err |-> Nil]
                          /\ pcE' = "done"
    /\ UNCHANGED <<evtStore, evalContext, vals, fieldMap, fieldErr, fieldIdx>>
    /\ UNCHANGED <<actorVars, resolverVars, propVars>>

FieldsDone_SkipFailed(idx, ferr, fields) == idx = Len(fields)

\* for _, field := range evtDef.PayloadFields { ... } else { break }
FieldsDone(idx, ferr, fields) == idx = Len(fields) \/ ferr # Nil

SetKey(m, k, v) == [x \in DOMAIN m \cup {k} |-> IF x = k THEN v ELSE m[x]]

\* one iteration of the payload-field loop
Eval_Field ==
    /\ pcE = "fields"
    /\ ~FieldsDone(fieldIdx, fieldErr, evtStore.def.PayloadFields)
    /\ LET field == evtStore.def.PayloadFields[fieldIdx + 1]
           ev == Evaluate(field.Expression, vals)
       IN /\ evaluated' = Append(evaluated, field.Expression)
          /\ fieldErr' = ev.err
          /\ fieldMap' = IF ev.err = Nil
                         THEN SetKey(fieldMap, field.Name, ev.val)
                         ELSE fieldMap
    /\ fieldIdx' = fieldIdx + 1
    /\ UNCHANGED <<evtStore, evalContext, pcE, vals, result, evRet>>
    /\ UNCHANGED <<actorVars, resolverVars, propVars>>

RECURSIVE AddProperties_KeepFields(_, _)
AddProperties_KeepFields(m, plist) ==
    IF plist = <<>> THEN m
    ELSE AddProperties_KeepFields(
            IF Head(plist) \in DOMAIN m THEN m
            ELSE SetKey(m, Head(plist), GetPropertyValue(Head(plist))),
            Tail(plist))

\* for _, evtPayProp := range evtDef.PayloadProperties {
\*     fieldMap[evtPayProp.Name] = (*mgdEq).GetPropertyValue(evtPayProp.Name) }
RECURSIVE AddProperties(_, _)
AddProperties(m, plist) ==
    IF plist = <<>> THEN m
    ELSE AddProperties(SetKey(m, Head(plist), GetPropertyValue(Head(plist))),
                       Tail(plist))

\* after the loop: the payload properties, then return true with fieldErr
Eval_PayloadProperties ==
    /\ pcE = "fields"
    /\ FieldsDone(fieldIdx, fieldErr, evtStore.def.PayloadFields)
    /\ fieldMap' = AddProperties(fieldMap, evtStore.def.PayloadProperties)
    /\ evRet' = [fired |-> TRUE, def |-> DefRef(evtStore.def),
                 payload |-> Payload(fieldMap'), err |-> fieldErr]
    /\ pcE' = "done"
    /\ UNCHANGED <<evtStore, evalContext, vals, result, fieldErr, fieldIdx,
                   evaluated>>
    /\ UNCHANGED <<actorVars, resolverVars, propVars>>

EvalLocalsInit ==
    /\ vals = EmptyMap
    /\ result = NilValue
    /\ fieldMap = EmptyMap
    /\ fieldErr = Nil
    /\ fieldIdx = 0
    /\ evaluated = <<>>
    /\ evRet = NoReturn

EvalInit ==
    /\ \/ evtStore = [found |-> FALSE, def |-> NoDefinition]
       \/ \E d \in EventDefinitions : evtStore = [found |-> TRUE, def |-> d]
    /\ evalContext \in Contexts
    /\ pcE = "start"
    /\ EvalLocalsInit

EvalIdle ==
    /\ evtStore = [found |-> FALSE, def |-> NoDefinition]
    /\ evalContext = NilContext
    /\ pcE = "idle"
    /\ EvalLocalsInit

\* the property maps EvaluateEventDef is run against: constructed from
\* instance properties, so Values are typed or nil
EvalPropsInit ==
    /\ \E ns \in SUBSET Names : \E f \in [ns -> PropForms] :
          props = [n \in ns |-> Descriptor(n, Property(0, n, f[n]))]
    /\ now = ZeroTime
    /\ updCall = NoCall
    /\ updErr = Nil
    /\ updResult = Nil
    /\ events = <<>>
    /\ added = 0
    /\ ConfigLevel = 0

Init == ActorInit /\ ResolverIdle /\ PropsIdle /\ EvalIdle

Next ==
    \/ \E c \in Callers : \E r \in Requests(c) : SendRequest_Send(c, r)
    \/ \E c \in Callers : SendRequest_Receive(c)
    \/ ActorStep

Spec == Init /\ [][Next]_vars

(***************************************************************************)
(* One request in flight at a time: a caller invokes SendRequest only when *)
(* no other caller is inside SendRequest.                                  *)
(***************************************************************************)
NoneInFlight == \A c \in Callers : pc[c] \in {"idle", "done"}

SoloSendRequest(c, r) == NoneInFlight /\ SendRequest_Send(c, r)

NextSolo ==
    \/ \E c \in Callers : \E r \in Requests(c) : SoloSendRequest(c, r)
    \/ \E c \in Callers : SendRequest_Receive(c)
    \/ ActorStep

SpecSolo == Init /\ [][NextSolo]_vars

InitResolver == ActorIdle /\ ResolverInit /\ PropsIdle /\ EvalIdle

NextResolver ==
    \/ Resolve_GetEquipment
    \/ Resolve_ClassStep
    \/ Resolve_Return
    \/ NewManagedEquipmentDefault

SpecResolver == InitResolver /\ [][NextResolver]_vars

InitProps == ActorIdle /\ ResolverIdle /\ PropsInit /\ EvalIdle

NextProps ==
    \/ \E n \in Names : \E v \in RawValues : UpdatePropertyValue(n, v)
    \/ \E e \in EventNames : \E d \in EventDescs : AddEvent(e, d)
    \/ \E l \in ConfigLevels : SetConfigLevel(l)

SpecProps == InitProps /\ [][NextProps]_vars

InitEval == ActorIdle /\ ResolverIdle /\ EvalPropsInit /\ EvalInit

NextEval ==
    \/ Eval_Lookup
    \/ Eval_Trigger
    \/ Eval_Field
    \/ Eval_PayloadProperties

SpecEval == InitEval /\ [][NextEval]_vars

(***************************************************************************)
(* One caller issuing TAGDATA and SHUTDOWN requests one after another, the *)
(* actor's goroutine looping over AcceptRequest.  A goroutine that can run *)
(* is eventually run: weak fairness on the actor's goroutine and on the    *)
(* caller's return from the send inside SendRequest.                       *)
(***************************************************************************)
TheCaller == 1

LiveRequests ==
    {r \in Requests(TheCaller) :
        r.ServiceType \in {SVCRQST_TAGDATA, SVCRQST_SHUTDOWN}}

LiveActorStep ==
    \/ AcceptRequest_Receive
    \/ AcceptRequest_TagData
    \/ AcceptRequest_Handler
    \/ AcceptRequest_TagDataAck
    \/ AcceptRequest_Shutdown
    \/ AcceptRequest_Return
    \/ RunLoop

NextLive ==
    \/ \E r \in LiveRequests : SendRequest_Send(TheCaller, r)
    \/ SendRequest_Receive(TheCaller)
    \/ LiveActorStep

SpecLive ==
    /\ Init
    /\ [][NextLive]_vars
    /\ WF_vars(LiveActorStep)
    /\ WF_vars(SendRequest_Receive(TheCaller))

(***************************************************************************)
(* The actor in use: one caller's requests served by the actor's loop,     *)
(* interleaved with property updates, events, configuration changes and an *)
(* EvaluateEventDef call against the actor.                                *)
(***************************************************************************)
EquipForm == [DataType |-> "INT", Value |-> "12"]

\* the actor was constructed with the one property P; Q is not in its map
Seeded == [n \in {"P"} |-> Descriptor(n, Property(0, n, EquipForm))]

EquipPropsInit ==
    /\ props = Seeded
    /\ now = ZeroTime
    /\ updCall = NoCall
    /\ updErr = Nil
    /\ updResult = Nil
    /\ events = <<>>
    /\ added = 0
    /\ ConfigLevel = 0

EquipDefinition ==
    [Id |-> "ev1",
     TriggerExpression |-> Eq("P", IntValue("12")),
     PayloadFields |-> <<[Name |-> "f", Expression |-> Var("P")]>>,
     PayloadProperties |-> <<"P", "Q">>]

EquipEvalInit ==
    /\ evtStore = [found |-> TRUE, def |-> EquipDefinition]
    /\ evalContext = NilContext
    /\ pcE = "start"
    /\ EvalLocalsInit

\* one handler is registered
EquipActorInit == ActorInit /\ Len(tagChangeHandlers) = 1

InitEquipment ==
    EquipActorInit /\ ResolverIdle /\ EquipPropsInit /\ EquipEvalInit

\* no EvaluateEventDef call is under way
NotEvaluating == pcE \in {"start", "done"}

NextEquipment ==
    \/ /\ NotEvaluating
       /\ \/ \E r \in Requests(TheCaller) : SendRequest_Send(TheCaller, r)
          \/ SendRequest_Receive(TheCaller)
          \/ ActorStep
          \/ \E n \in Names : \E v \in RawValues : UpdatePropertyValue(n, v)
          \/ \E e \in EventNames : \E d \in EventDescs : AddEvent(e, d)
          \/ \E l \in ConfigLevels : SetConfigLevel(l)
    \/ NextEval

SpecEquipment == InitEquipment /\ [][NextEquipment]_vars

(***************************************************************************)
(* EvaluateEventDef against an actor that has been in use: the property P, *)
(* an empty or a filled event log, either configuration level.             *)
(***************************************************************************)
UsedLogs == {<<>>, <<"raised", "cleared">>}

UsedPropsInit ==
    /\ props = Seeded
    /\ now = ZeroTime
    /\ updCall = NoCall
    /\ updErr = Nil
    /\ updResult = Nil
    /\ events \in UsedLogs
    /\ added = Len(events)
    /\ ConfigLevel \in ConfigLevels

InitEvalUsed == ActorIdle /\ ResolverIdle /\ UsedPropsInit /\ EvalInit

SpecEvalUsed == InitEvalUsed /\ [][NextEval]_vars

(***************************************************************************)
(* Properties of the request/ack protocol                                  *)
(***************************************************************************)
Recognized == {SVCRQST_TAGDATA, SVCRQST_SHUTDOWN}

AckTypeFor(st) ==
    IF st = SVCRQST_TAGDATA THEN SVCRQST_TAGDATA_ACK
    ELSE IF st = SVCRQST_SHUTDOWN THEN SVCRQST_SHUTDOWN_ACK
    ELSE "none"

AllRequests == UNION {Requests(c) : c \in Callers}

\* callers whose request was taken off the channel and who await the ack
AwaitingAck == {c \in Callers : pc[c] \in {"sent", "recvBlocked"}}

\* the actor holds a request it has not yet acknowledged
ActorBusy == pc[Actor] \in {"gotRqst", "handlers", "sendBlocked"}

\* C1: with concurrent callers, every SendRequest returns the ack the actor
\* produced for its own request: never another caller's request, never the
\* ack of another kind of request, and no second request leaves the channel
\* while a caller still awaits its ack.
C1_OwnAck ==
    /\ \A c \in Callers :
          pc[c] = "done" =>
            /\ ack[c] \notin AllRequests
            /\ ack[c].ServiceType = AckTypeFor(request[c].ServiceType)
    /\ Cardinality(AwaitingAck) <= 1

\* C2: every AcceptRequest call that returns has sent one ack, whatever the
\* ServiceType of the request it received.
C2_OneAckPerCall == pc[Actor] = "returned" => reply # NoMsg

\* C3: with one request in flight at a time, a SHUTDOWN request is answered
\* SHUTDOWN_ACK and the AcceptRequest call that received it returns false;
\* AcceptRequest returns false for SHUTDOWN and true for any other request.
C3_ShutdownAck ==
    /\ \A c \in Callers :
          (pc[c] = "done" /\ request[c].ServiceType = SVCRQST_SHUTDOWN) =>
            /\ ack[c].ServiceType = SVCRQST_SHUTDOWN_ACK
            /\ rqst.Message = request[c].Message
            /\ pc[Actor] \in {"ackSent", "returned", "stopped"}
            /\ (pc[Actor] # "ackSent" => ret = FALSE)
    /\ pc[Actor] = "returned" =>
          (ret = FALSE <=> rqst.ServiceType = SVCRQST_SHUTDOWN)

C3_Witness ==
    /\ pc[Actor] = "returned"
    /\ ret = FALSE
    /\ \E c \in Callers :
          /\ pc[c] = "done"
          /\ request[c].ServiceType = SVCRQST_SHUTDOWN
          /\ ack[c] = ShutdownAck

RECURSIVE ConcatAcks(_, _)
ConcatAcks(handlers, results) ==
    IF handlers = <<>> THEN <<>>
    ELSE GetAckMessage(Head(handlers), Head(results))
            \o ConcatAcks(Tail(handlers), Tail(results))

\* the actor has built the ack of a TAGDATA request
TagDataAnswered ==
    /\ pc[Actor] \in {"sendBlocked", "ackSent"}
    /\ rqst.ServiceType = SVCRQST_TAGDATA

\* C4: the ack of a TAGDATA request is TAGDATA_ACK and its Message is the
\* concatenation, in registration order, of each handler's GetAckMessage of
\* that handler's HandleTagChange result; empty with no handlers.
C4_AckMessage ==
    TagDataAnswered =>
        /\ reply.ServiceType = SVCRQST_TAGDATA_ACK
        /\ Len(errs) = Len(tagChangeHandlers)
        /\ reply.Message = ConcatAcks(tagChangeHandlers, errs)

C4_Witness ==
    /\ TagDataAnswered
    /\ Len(tagChangeHandlers) = 2
    /\ errs = <<"handlerError", Nil>>
    /\ reply.Message = <<"h1", "handlerError", "h2", "ok">>

\* C5: for one TAGDATA request every registered handler is invoked exactly
\* once, in registration order, with the request's tag payload, whatever
\* earlier handlers returned; AcceptRequest then returns true.
C5_AllHandlersInvoked ==
    /\ pc[Actor] = "handlers" =>
          /\ Len(calls) <= Len(tagChangeHandlers)
          /\ \A i \in 1..Len(calls) : calls[i].handler = tagChangeHandlers[i]
    /\ (TagDataAnswered \/ (pc[Actor] = "returned"
                               /\ rqst.ServiceType = SVCRQST_TAGDATA)) =>
          /\ [i \in 1..Len(calls) |-> calls[i].handler] = tagChangeHandlers
          /\ \A i \in 1..Len(calls) : calls[i].tagInfo = rqst.TagInfo
          /\ rqst.TagInfo.OwningAssetId = EquipInstId
    /\ (pc[Actor] = "returned" /\ rqst.ServiceType = SVCRQST_TAGDATA) =>
          ret = TRUE

C5_Witness ==
    /\ pc[Actor] = "returned"
    /\ rqst.ServiceType = SVCRQST_TAGDATA
    /\ ret = TRUE
    /\ Len(calls) = 2
    /\ errs[1] # Nil

\* C6: requests are handled one at a time in the order their send phase
\* completed: a caller whose (recognized) request has left the channel and
\* who awaits its ack is the only such caller, and the actor is handling
\* that very request.
C6_FifoOneAtATime ==
    \A c \in AwaitingAck :
        request[c].ServiceType \in Recognized =>
            /\ AwaitingAck = {c}
            /\ ActorBusy
            /\ rqst.Message = request[c].Message

\* the actor has completed the send of a SHUTDOWN_ACK
RepliedShutdown ==
    /\ reply = ShutdownAck
    /\ pc[Actor] \in {"ackSent", "returned", "stopped"}

\* C7: once an AcceptRequest call has replied SHUTDOWN_ACK the actor
\* receives, dispatches and acknowledges nothing more.
C7_NoRequestAfterShutdown ==
    [][RepliedShutdown =>
         /\ pc'[Actor] \in {"ackSent", "returned", "stopped"}
         /\ rqst' = rqst
         /\ calls' = calls
         /\ reply' = reply]_vars

\* a request sent after the shutdown stays parked on the channel
C7_Witness ==
    /\ pc[Actor] = "stopped"
    /\ reply = ShutdownAck
    /\ sendq # <<>>

(***************************************************************************)
(* Properties of UpdatePropertyValue                                       *)
(***************************************************************************)
\* C8: UpdatePropertyValue returns the conversion error when the conversion
\* fails, and nil only when the new value was stored.
C8_ReturnsConversionError ==
    updCall.propName \in DOMAIN props => updResult = updErr

(***************************************************************************)
(* Properties of the resolver                                              *)
(***************************************************************************)
ScopeProps(k) == IF k = 0 THEN eqInst.Properties ELSE classes[k].Properties

\* the scopes among 0..last that declare name n
DeclaringScopes(n, last) ==
    {k \in 0..last : \E p \in ScopeProps(k) : p.Name = n}

MaxOf(S) == CHOOSE x \in S : \A y \in S : y <= x

\* the map holds exactly the names declared in scopes 0..last, each with the
\* definition of the most distant of these scopes that declares it
MergedUpTo(last) ==
    /\ DOMAIN fullPropertyList =
          {n \in Names : DeclaringScopes(n, last) # {}}
    /\ \A n \in DOMAIN fullPropertyList :
          fullPropertyList[n] \in ScopeProps(MaxOf(DeclaringScopes(n, last)))

\* C9: when every lookup succeeds the resolved names are the union of the
\* names declared by the instance and by every class of the chain, each name
\* with the definition of the most distant ancestor that declares it (the
\* instance's own when no class does); with no class, exactly the
\* instance's own properties.
C9_AncestorWins ==
    (pcR = "done" /\ err = Nil) =>
        /\ MergedUpTo(Len(classes))
        /\ eqInst.EquipmentClass = "" =>
              {fullPropertyList[n] : n \in DOMAIN fullPropertyList}
                  = eqInst.Properties

C9_Witness ==
    /\ pcR = "done"
    /\ err = Nil
    /\ Len(classes) = 2
    /\ DeclaringScopes("P", 2) = {0, 1, 2}
    /\ DeclaringScopes("Q", 2) = {0}
    /\ fullPropertyList["P"].EquipmentClass = ClassId(2)
    /\ fullPropertyList["Q"].EquipmentClass = ""

\* C10: when the lookup of the k-th class fails the walk stops there: no
\* further ancestor is looked up, the error is returned, and the map holds
\* exactly what the instance and the first k-1 classes merged.
C10_StopsAtFailure ==
    \A k \in 1..Len(classes) :
        (pcR = "done" /\ failing = {ClassId(k)}) =>
            /\ err # Nil
            /\ lookups = [i \in 1..k |-> ClassId(i)]
            /\ MergedUpTo(k - 1)

C10_Witness ==
    /\ pcR = "done"
    /\ Len(classes) = 2
    /\ failing = {ClassId(1)}
    /\ err = NotFound
    /\ lookups = <<ClassId(1)>>
    /\ DOMAIN fullPropertyList = {"P"}
    /\ DeclaringScopes("Q", 2) = {2}

(***************************************************************************)
(* Properties of EvaluateEventDef                                          *)
(***************************************************************************)
EvtDef == evtStore.def
Fields == EvtDef.PayloadFields
PayloadNames == {EvtDef.PayloadProperties[i] :
                    i \in 1..Len(EvtDef.PayloadProperties)}

\* what an expression yields in the environment the call must use
Expected(expr) == Evaluate(expr, Environment)

\* the call has returned and its trigger evaluates to true
TriggerTrue ==
    /\ pcE = "done"
    /\ evtStore.found
    /\ Expected(EvtDef.TriggerExpression) =
          [val |-> BoolValue(TRUE), err |-> Nil]

\* index of the first payload field whose expression fails, 0 if none does
FirstFailing ==
    LET bad == {i \in 1..Len(Fields) : Expected(Fields[i].Expression).err # Nil}
    IN IF bad = {} THEN 0 ELSE CHOOSE i \in bad : \A j \in bad : i <= j

\* the fields evaluated successfully: all of them, or those before the failure
LastGood == IF FirstFailing = 0 THEN Len(Fields) ELSE FirstFailing - 1

FiredWithFieldError ==
    /\ evRet.fired = TRUE
    /\ ~evRet.payload.isNil
    /\ evRet.err = IF FirstFailing = 0 THEN Nil
                   ELSE Expected(Fields[FirstFailing].Expression).err

\* C11 as stated: fired=true with the first failing field's error; the
\* payload holds fields 1..i-1 with their evaluated values, none of fields
\* i..n unless a PayloadProperties entry has that name, and every
\* PayloadProperties entry.
C11_PartialPayload_AsStated ==
    TriggerTrue =>
        /\ FiredWithFieldError
        /\ \A j \in 1..LastGood :
              /\ Fields[j].Name \in DOMAIN evRet.payload.m
              /\ evRet.payload.m[Fields[j].Name] =
                    Expected(Fields[j].Expression).val
        /\ \A j \in (LastGood + 1)..Len(Fields) :
              Fields[j].Name \in DOMAIN evRet.payload.m
                  => Fields[j].Name \in PayloadNames
        /\ PayloadNames \subseteq DOMAIN evRet.payload.m

\* positions among the good fields that carry name k
GoodWithName(k) == {j \in 1..LastGood : Fields[j].Name = k}

\* C11 (amended): fired=true with the first failing field's error; the
\* payload's keys are the names of fields 1..i-1 and of the
\* PayloadProperties entries; a PayloadProperties name carries the stored
\* property value even when a field has that name, any other name the
\* evaluated value of the last of the fields 1..i-1 with that name.
C11_PartialPayload ==
    TriggerTrue =>
        /\ FiredWithFieldError
        /\ DOMAIN evRet.payload.m =
              PayloadNames \cup {Fields[j].Name : j \in 1..LastGood}
        /\ \A k \in DOMAIN evRet.payload.m :
              evRet.payload.m[k] =
                 IF k \in PayloadNames THEN GetPropertyValue(k)
                 ELSE Expected(Fields[MaxOf(GoodWithName(k))].Expression).val

C11_Witness ==
    /\ TriggerTrue
    /\ Len(Fields) = 2
    /\ FirstFailing = 2
    /\ Fields[1].Name = "f"
    /\ EvtDef.PayloadProperties = <<"Q">>
    /\ evRet.err # Nil
    /\ DOMAIN evRet.payload.m = {"f", "Q"}

\* the call has looked the definition up and built its environment
EnvironmentBuilt == evtStore.found /\ pcE \in {"trigger", "fields", "done"}

ContextKeys == IF evalContext.isNil THEN {} ELSE DOMAIN evalContext.m

\* C12: the environment maps every key of the extra context to the
\* context's value and every other property name to the actor's current
\* property value, so the context wins on a shared key; the trigger and the
\* payload fields are evaluated against it.
C12_ContextWins ==
    EnvironmentBuilt =>
        /\ DOMAIN vals = ContextKeys \cup DOMAIN props
        /\ \A k \in ContextKeys : vals[k] = evalContext.m[k]
        /\ \A k \in DOMAIN props \ ContextKeys : vals[k] = props[k].Value
        /\ pcE # "trigger" =>
              result = Evaluate(EvtDef.TriggerExpression, vals).val

C12_Witness ==
    /\ pcE = "done"
    /\ evtStore.found
    /\ "P" \in ContextKeys
    /\ "P" \in DOMAIN props
    /\ props["P"].Value = IntValue("12")
    /\ vals["P"] = IntValue("7")
    /\ Fields = <<[Name |-> "f", Expression |-> Var("P")]>>
    /\ evRet.fired
    /\ evRet.payload.m["f"] = IntValue("7")

\* the trigger evaluates without error to false or to a non-boolean value
TriggerNotTrue ==
    /\ pcE = "done"
    /\ evtStore.found
    /\ Expected(EvtDef.TriggerExpression).err = Nil
    /\ Expected(EvtDef.TriggerExpression).val # BoolValue(TRUE)

\* C13: a trigger that evaluates to false or to a non-boolean value gives
\* fired=false, a nil payload and a nil error, and no payload field
\* expression is evaluated.
C13_NotFired ==
    TriggerNotTrue =>
        /\ evRet.fired = FALSE
        /\ evRet.payload.isNil
        /\ evRet.err = Nil
        /\ evaluated = <<EvtDef.TriggerExpression>>
        /\ fieldIdx = 0

C13_Witness ==
    /\ TriggerNotTrue
    /\ Expected(EvtDef.TriggerExpression).val = IntValue("12")
    /\ Len(Fields) = 2
    /\ evRet.fired = FALSE
    /\ evRet.err = Nil

\* C14: a failed definition lookup, or a trigger that fails to evaluate, is
\* returned as the error with fired=false and a nil payload; after a failed
\* lookup no expression is evaluated.
C14_ErrorsReturned ==
    pcE = "done" =>
        /\ ~evtStore.found =>
              /\ evRet.err = NotFound
              /\ evRet.fired = FALSE
              /\ evRet.payload.isNil
              /\ evaluated = <<>>
        /\ (evtStore.found /\ Expected(EvtDef.TriggerExpression).err # Nil) =>
              /\ evRet.err = Expected(EvtDef.TriggerExpression).err
              /\ evRet.fired = FALSE
              /\ evRet.payload.isNil
              /\ evaluated = <<EvtDef.TriggerExpression>>

C14_Witness ==
    /\ pcE = "done"
    /\ evtStore.found
    /\ EvtDef.TriggerExpression = Var("X")
    /\ evRet.err = "unknown parameter X"
    /\ evRet.fired = FALSE
    /\ Len(Fields) = 1

\* C18: in a fired payload every PayloadProperties name carries the value
\* stored in the actor's property map, whatever the extra context or a
\* payload field of the same name says, and nil when the map lacks the name.
C18_PropertiesFromMap ==
    TriggerTrue =>
        \A k \in PayloadNames :
            /\ k \in DOMAIN evRet.payload.m
            /\ evRet.payload.m[k] =
                  IF k \in DOMAIN props THEN props[k].Value ELSE NilValue

C18_Witness ==
    /\ TriggerTrue
    /\ EvtDef.PayloadProperties = <<"P", "Q">>
    /\ Fields = <<[Name |-> "P", Expression |-> Var("P")]>>
    /\ "P" \in ContextKeys
    /\ Expected(Var("P")).val = IntValue("7")
    /\ DOMAIN props = {"P"}
    /\ evRet.payload.m["P"] = IntValue("12")
    /\ evRet.payload.m["Q"] = NilValue

\* the fields of a descriptor that UpdatePropertyValue never writes
Identity(pd) ==
    <<pd.Name, pd.DataType, pd.ClassPropertyId, pd.EquipmentClassId>>

\* C16: an UpdatePropertyValue call changes only the Value and LastUpdate of
\* the descriptor stored under its name, and not even those when the
\* conversion fails; that descriptor's Name, DataType, ClassPropertyId and
\* EquipmentClassId, every other descriptor, the event log and ConfigLevel
\* stay as they were.
C16_UpdateFrame ==
    [][now' # now =>
         LET n == updCall'.propName IN
         /\ events' = events
         /\ ConfigLevel' = ConfigLevel
         /\ DOMAIN props \subseteq DOMAIN props'
         /\ \A k \in DOMAIN props \ {n} : props'[k] = props[k]
         /\ n \in DOMAIN props =>
               /\ Identity(props'[n]) = Identity(props[n])
               /\ updErr' # Nil => props'[n] = props[n]
               /\ updErr' = Nil =>
                     /\ props'[n].Value =
                           ConvertPropertyValueStringToTypedValue(
                               props[n].DataType, updCall'.propValue).val
                     /\ props'[n].LastUpdate = now']_vars

C16_Witness ==
    /\ updCall = [propName |-> "P", propValue |-> "7"]
    /\ updErr = Nil
    /\ DOMAIN props = {"P", "Q"}
    /\ props["P"].Value = <<"int", "7">>
    /\ props["P"].LastUpdate = now
    /\ props["P"].ClassPropertyId # ""
    /\ props["Q"].LastUpdate = ZeroTime
    /\ Len(events) = MaxEvents
    /\ ConfigLevel = 1

\* the caller is inside a SendRequest call
InSendRequest == pc[TheCaller] \in {"sendBlocked", "sent", "recvBlocked"}

\* C15: with one sequential caller of TAGDATA and SHUTDOWN requests and the
\* actor looping over AcceptRequest, every SendRequest call made before a
\* SHUTDOWN has been acknowledged eventually returns.
C15_HandshakeCompletes ==
    (InSendRequest /\ ~RepliedShutdown) ~> (pc[TheCaller] = "done")

C15_Witness ==
    /\ pc[TheCaller] = "done"
    /\ issued = MaxRequests
    /\ request[TheCaller].ServiceType = SVCRQST_SHUTDOWN
    /\ ack[TheCaller] = ShutdownAck
    /\ Len(tagChangeHandlers) = MaxHandlers
    /\ pc[Actor] = "stopped"

\* C19: a constructor whose resolver returned an error still returns an
\* actor, with an empty property map whatever the resolver had gathered;
\* the map holds the resolver's names only when the resolver returned no
\* error.
C19_ErrorDiscardsProperties ==
    pcR = "constructed" =>
        /\ err # Nil => props = EmptyMap
        /\ err = Nil =>
              /\ DOMAIN props = DOMAIN fullPropertyList
              /\ \A n \in DOMAIN props :
                    /\ props[n].Name = n
                    /\ props[n].DataType = fullPropertyList[n].DataType
        /\ events = <<>>
        /\ ConfigLevel = 0

C19_Witness ==
    /\ pcR = "constructed"
    /\ err = NotFound
    /\ Len(classes) = 2
    /\ failing = {ClassId(2)}
    /\ DOMAIN fullPropertyList = {"P", "Q"}
    /\ props = EmptyMap

\* C17: the event log only grows at its end: an AddEvent call appends
\* exactly one entry, also when an equal entry is already logged, and every
\* other step of the actor (UpdatePropertyValue, SetConfigLevel,
\* SendRequest, AcceptRequest, EvaluateEventDef) leaves the log as it was.
C17_AppendOnly ==
    [][/\ added' \in {added, added + 1}
       /\ added' = added => events' = events
       /\ added' = added + 1 =>
             \E d \in EventDescs : events' = Append(events, d)]_vars

C17_Witness ==
    /\ events = <<"raised", "raised">>
    /\ added = 2
    /\ pc[TheCaller] = "done"
    /\ ack[TheCaller].ServiceType = SVCRQST_TAGDATA_ACK
    /\ now > ZeroTime
    /\ ConfigLevel = 1

C21_ReadOnly ==
    [][/\ props' = props
       /\ events' = events
       /\ ConfigLevel' = ConfigLevel
       /\ evalContext' = evalContext]_vars

\* a fired call whose second field failed, made with a context that shares
\* the key P with the property map, on an actor with a filled log
C21_Witness ==
    /\ pcE = "done"
    /\ evRet.fired
    /\ evRet.err # Nil
    /\ fieldIdx = 2
    /\ evalContext = Context([k \in {"P"} |-> IntValue("7")])
    /\ vals["P"] = IntValue("7")
    /\ props = Seeded
    /\ events = <<"raised", "cleared">>
    /\ ConfigLevel = 1

====
